---- MODULE Spec2Model ----
(***************************************************************************)
(* A model of exceptlib (src/src/exceptlib.py): the ExceptionFrom handler  *)
(* predicate and scraper facade, the get_raised walk, the traceback module *)
(* resolver, the context-chain walker, the random exception factory and    *)
(* the ExceptionTypeScraper visitor.                                       *)
(*                                                                         *)
(* Python values are records [kind, name, uid, base]: a class is           *)
(* kind = "type" and is identified by (name, uid), uid = 0 for the classes *)
(* of the interpreter and uid > 0 for the classes made at run time by      *)
(* type(); any other object has kind = "object"; None has kind = "None".   *)
(* A call that raises is a record whose field raised names the exception.  *)
(***************************************************************************)
EXTENDS Integers, Sequences, FiniteSets, TLC

VARIABLES
    sys_modules,    \* sys.modules: the ordered registry of loaded modules
    errs,           \* the exception objects raised so far (index = identity)
    active,         \* sys.exc_info(): index of the exception being handled, 0 if none
    pc,             \* where the calling program stands
    clauses,        \* the except clauses evaluated so far, in source order
    ran,            \* index of the except clause whose body ran, 0 if none
    call,           \* the arguments of the last ExceptionFrom construction
    result,         \* what the last ExceptionFrom construction returned or raised
    ntypes,         \* number of classes created by type() so far
    scraper,        \* the fields of an ExceptionTypeScraper instance
    todo,           \* the nodes NodeVisitor.visit has still to visit
    fault,          \* the exception that ended the visit, "" if none
    standard_exceptions,  \* the module's tuple of that name, once imported
    made            \* the classes direct calls of random_exception returned

vars == <<sys_modules, errs, active, pc, clauses, ran, call, result, ntypes,
          scraper, todo, fault, standard_exceptions, made>>

\* the module state the handler program and the visitor leave alone
internals == <<standard_exceptions, made>>

----------------------------------------------------------------------------
(* Bounds of the model *)

MaxChain == 2
MaxClauses == 2

----------------------------------------------------------------------------
(* Python values *)

None == [kind |-> "None", name |-> "None", uid |-> 0, base |-> ""]

Object(name) == [kind |-> "object", name |-> name, uid |-> 0, base |-> ""]

\* the value of `x is not None`, which line 274 binds to exc_type
PyTrue == Object("True")

\* src/src/exceptlib.py:22-88, in the order of the tuple
std_excs ==
    << "BaseException", "GeneratorExit", "KeyboardInterrupt", "SystemExit",
       "Exception", "ArithmeticError", "FloatingPointError", "OverflowError",
       "ZeroDivisionError", "AssertionError", "AttributeError", "BufferError",
       "EOFError", "ImportError", "ModuleNotFoundError", "LookupError",
       "IndexError", "KeyError", "MemoryError", "NameError",
       "UnboundLocalError", "OSError", "BlockingIOError", "ChildProcessError",
       "ConnectionError", "BrokenPipeError", "ConnectionAbortedError",
       "ConnectionRefusedError", "ConnectionResetError", "FileExistsError",
       "FileNotFoundError", "InterruptedError", "IsADirectoryError",
       "NotADirectoryError", "PermissionError", "ProcessLookupError",
       "TimeoutError", "ReferenceError", "RuntimeError", "NotImplementedError",
       "RecursionError", "StopAsyncIteration", "StopIteration", "SyntaxError",
       "IndentationError", "TabError", "SystemError", "TypeError", "ValueError",
       "UnicodeError", "UnicodeDecodeError", "UnicodeEncodeError",
       "UnicodeTranslateError", "Warning", "BytesWarning", "DeprecationWarning",
       "EncodingWarning", "FutureWarning", "ImportWarning",
       "PendingDeprecationWarning", "ResourceWarning", "RuntimeWarning",
       "SyntaxWarning", "UnicodeWarning", "UserWarning" >>

std_exc_names == { std_excs[i] : i \in 1..Len(std_excs) }

\* the base class of each class of the tuple (the interpreter's hierarchy,
\* which the tuple lists parent first)
StdBase(name) ==
    CASE name = "BaseException" -> "object"
      [] name \in {"GeneratorExit", "KeyboardInterrupt", "SystemExit",
                   "Exception"} -> "BaseException"
      [] name \in {"FloatingPointError", "OverflowError", "ZeroDivisionError"}
            -> "ArithmeticError"
      [] name = "ModuleNotFoundError" -> "ImportError"
      [] name \in {"IndexError", "KeyError"} -> "LookupError"
      [] name = "UnboundLocalError" -> "NameError"
      [] name \in {"BlockingIOError", "ChildProcessError", "ConnectionError",
                   "FileExistsError", "FileNotFoundError", "InterruptedError",
                   "IsADirectoryError", "NotADirectoryError", "PermissionError",
                   "ProcessLookupError", "TimeoutError"} -> "OSError"
      [] name \in {"BrokenPipeError", "ConnectionAbortedError",
                   "ConnectionRefusedError", "ConnectionResetError"}
            -> "ConnectionError"
      [] name \in {"NotImplementedError", "RecursionError"} -> "RuntimeError"
      [] name = "IndentationError" -> "SyntaxError"
      [] name = "TabError" -> "IndentationError"
      [] name = "UnicodeError" -> "ValueError"
      [] name \in {"UnicodeDecodeError", "UnicodeEncodeError",
                   "UnicodeTranslateError"} -> "UnicodeError"
      [] name \in {"BytesWarning", "DeprecationWarning", "EncodingWarning",
                   "FutureWarning", "ImportWarning",
                   "PendingDeprecationWarning", "ResourceWarning",
                   "RuntimeWarning", "SyntaxWarning", "UnicodeWarning",
                   "UserWarning"} -> "Warning"
      [] OTHER -> "Exception"

\* a class of the interpreter
StdType(name) ==
    [kind |-> "type", name |-> name, uid |-> 0, base |-> StdBase(name)]

\* the classes of lines 91-102, which only some interpreters define: the
\* first two from 3.11 on, the third from 3.13 on
conditional_exceptions ==
    << "BaseExceptionGroup", "ExceptionGroup", "PythonFinalizationError" >>

\* the names of conditional_exceptions the builtins of an interpreter bind
Py310 == {}
Py311 == {"BaseExceptionGroup", "ExceptionGroup"}
Py313 == {"BaseExceptionGroup", "ExceptionGroup", "PythonFinalizationError"}
Runtimes == { Py310, Py311, Py313 }

\* lines 22-102: standard_exceptions after the module is imported; the first
\* try adds both classes or, on NameError, neither, the second adds the third
ImportedStandardExceptions(builtins) ==
    std_excs
    \o (IF {"BaseExceptionGroup", "ExceptionGroup"} \subseteq builtins
        THEN <<"BaseExceptionGroup", "ExceptionGroup">> ELSE <<>>)
    \o (IF "PythonFinalizationError" \in builtins
        THEN <<"PythonFinalizationError">> ELSE <<>>)

\* std_excs_map.get(name)
std_excs_map(name) == IF name \in std_exc_names THEN StdType(name) ELSE None

RECURSIVE StdAncestors(_)
\* the names of a standard class and of its base classes
StdAncestors(name) ==
    IF name \notin std_exc_names THEN {}
    ELSE {name} \cup StdAncestors(StdBase(name))

\* issubclass(t, u) for classes t and u
IsSubclass(t, u) ==
    \/ t = u
    \/ u.kind = "type" /\ u.uid = 0 /\ t.kind = "type"
       /\ u.name \in StdAncestors(IF t.uid = 0 THEN t.name ELSE t.base)

BaseExceptionT == StdType("BaseException")

----------------------------------------------------------------------------
(* Modules and the registry of loaded modules *)

\* a module object; file = "" when the module has no __file__ attribute, and
\* id tells a second module object made from the same file from the first
Module(name, file) == [kind |-> "module", name |-> name, file |-> file, id |-> 0]

\* the None found where a module is looked for
NoModule == [kind |-> "None", name |-> "None", file |-> "", id |-> 0]

\* sys.builtin_module_names
builtin_module_names == {"sys", "builtins"}

SysMod == Module("sys", "")
ExceptlibMod == Module("exceptlib", "exceptlib.py")
LoggingMod == Module("logging", "logging.py")
SecretsMod == Module("secrets", "secrets.py")
RandomMod == Module("random", "random.py")
MainMod == Module("__main__", "test.py")
TestMod == Module("test_ExceptionFrom", "test.py")

\* module objects made for the source of the scraper's fixture: one whose
\* namespace is empty, one whose namespace holds the names the source binds
DummyMod == Module("dummy", "dummy.py")
DummyLoadedMod == Module("dummy_loaded", "dummy.py")

\* the registry in insertion order; the test file is loaded twice, as the
\* script that runs and as the module the runner imports
LoadedModules ==
    << SysMod, ExceptlibMod, LoggingMod, SecretsMod, RandomMod, MainMod, TestMod >>

\* the files that exist on disk
FilesOnDisk ==
    {"exceptlib.py", "logging.py", "secrets.py", "random.py", "test.py"}

\* an argument that is not a module: the 7 of test_with_wrong_input_raises
Seven == [kind |-> "int", name |-> "7", file |-> "", id |-> 0]

\* isinstance(m, ModuleType)
IsModule(m) == m.kind = "module"

\* a class defined in a module's own namespace
ModuleClass(name, base) ==
    [kind |-> "type", name |-> name, uid |-> -1, base |-> base]

\* getattr(module, attr, None) for the attributes the sources below name
ModuleAttr(m, attr) ==
    CASE m = NoModule -> None
      [] m.id # 0 -> None
      [] m.name = "logging" /\ attr = "TimeoutError"
            -> ModuleClass("TimeoutError", "Exception")
      [] m.name = "logging" /\ attr = "_err" -> StdType("KeyError")
      [] m.name = "logging" /\ attr = "open" -> Object("open")
      [] m.name = "dummy_loaded" /\ attr \in {"my_exc", "my_other_exc"}
            -> StdType("ZeroDivisionError")
      [] OTHER -> None

----------------------------------------------------------------------------
(* Syntax trees, as ast.parse builds them *)

NoNode == [k |-> "None"]
Name(id) == [k |-> "Name", id |-> id]
Constant == [k |-> "Constant"]
Attribute(value, attr) == [k |-> "Attribute", value |-> value, attr |-> attr]
Call(func, args) == [k |-> "Call", func |-> func, args |-> args]
Subscript(value) == [k |-> "Subscript", value |-> value]
TupleNode(elts) == [k |-> "Tuple", elts |-> elts]
Raise(exc) == [k |-> "Raise", exc |-> exc]
Assign(targets, value) == [k |-> "Assign", targets |-> targets, value |-> value]
Expr(value) == [k |-> "Expr", value |-> value]
ExceptHandler(type, name, body) ==
    [k |-> "ExceptHandler", type |-> type, name |-> name, body |-> body]
Try(body, handlers) ==
    [k |-> "Try", body |-> body, handlers |-> handlers]
FunctionDef(body) == [k |-> "FunctionDef", body |-> body]
ModuleNode(body) == [k |-> "Module", body |-> body]

\* an except clause without `as`
NoName == ""

\* ast.iter_child_nodes(node): the child nodes in field order (the ctx of a
\* Name and the arguments of a FunctionDef are left out)
Children(node) ==
    CASE node.k \in {"Module", "FunctionDef"} -> node.body
      [] node.k = "Raise" -> IF node.exc = NoNode THEN <<>> ELSE <<node.exc>>
      [] node.k = "Assign" -> node.targets \o <<node.value>>
      [] node.k = "Expr" -> <<node.value>>
      [] node.k = "Try" -> node.body \o node.handlers
      [] node.k = "ExceptHandler" ->
            (IF node.type = NoNode THEN <<>> ELSE <<node.type>>) \o node.body
      [] node.k = "Call" -> <<node.func>> \o node.args
      [] node.k \in {"Attribute", "Subscript"} -> <<node.value>>
      [] node.k = "Tuple" -> node.elts
      [] OTHER -> <<>>

RECURSIVE WalkQueue(_)
\* ast.walk: breadth first, the node itself first
WalkQueue(queue) ==
    IF queue = <<>> THEN <<>>
    ELSE <<Head(queue)>> \o WalkQueue(Tail(queue) \o Children(Head(queue)))

Walk(node) == WalkQueue(<<node>>)

\* some statements
RaiseName(id) == Raise(Name(id))
RaiseCall(id) == Raise(Call(Name(id), <<Constant>>))
BareRaise == Raise(NoNode)
AssignName(target, id) == Assign(<<Name(target)>>, Name(id))
TryExcept(body, type, name, hbody) ==
    Try(body, <<ExceptHandler(type, name, hbody)>>)

\* the syntax tree of each module's source file
ModuleSource(m) ==
    CASE m.name = "random" ->
            ModuleNode(<< FunctionDef(<< RaiseCall("TypeError"),
                                         RaiseName("ValueError") >>) >>)
      [] m.name = "secrets" -> ModuleNode(<< RaiseCall("ValueError") >>)
      [] m.name = "logging" ->
            ModuleNode(<< AssignName("_err", "KeyError"),
                          RaiseName("_err"),
                          TryExcept(<<Expr(Call(Name("open"), <<>>))>>,
                                    Name("OSError"), NoName, <<BareRaise>>),
                          RaiseCall("TimeoutError") >>)
      [] m.name = "exceptlib" ->
            ModuleNode(<< RaiseCall("TypeError"), RaiseCall("ValueError"),
                          RaiseCall("RuntimeError") >>)
      [] OTHER -> ModuleNode(<< TryExcept(<<Expr(Call(Name("getLogger"), <<Constant>>))>>,
                                          NoNode, NoName,
                                          <<RaiseName("IndexError")>>) >>)

----------------------------------------------------------------------------
(* Results of calls: a value returned, or an exception raised *)

Ok(v) == [raised |-> "", val |-> v]
Raised(e) == [raised |-> e, val |-> <<>>]

\* the None a function returns in place of a name
NoneId == "<None>"

----------------------------------------------------------------------------
(* get_raised and its helpers (module level functions) *)

\* id_from_call_or_name_ast(node), lines 334-359
id_from_call_or_name_ast(node) ==
    IF node.k \notin {"Call", "Name"} THEN Raised("TypeError")
    ELSE IF node.k = "Call"
    THEN IF node.func.k = "Name" THEN Ok(node.func.id)
         ELSE IF node.func.k = "Attribute"
         THEN IF node.func.value.k = "Name" THEN Ok(node.func.value.id)
              ELSE Raised("AttributeError")
         ELSE Ok(NoneId)
    ELSE Ok(node.id)

\* exc_type_name_from_raise_ast(raise_node), lines 285-309
exc_type_name_from_raise_ast(raise_node) ==
    IF raise_node.k # "Raise" THEN Raised("TypeError")
    ELSE IF raise_node.exc = NoNode THEN Ok(NoneId)
    ELSE id_from_call_or_name_ast(raise_node.exc)

\* exc_alias_and_type_name_from_assign_ast(assign_node), lines 312-331: the
\* dict is a function from the bound names to the type name ("or {}" of the
\* caller included: None is returned as the empty dict)
exc_alias_and_type_name_from_assign_ast(assign_node) ==
    IF assign_node.k # "Assign" THEN Raised("TypeError")
    ELSE LET name == id_from_call_or_name_ast(assign_node.value)
             targets == assign_node.targets
         IN IF name.raised # "" THEN name
            ELSE IF name.val = NoneId THEN Ok({})
            ELSE IF \E i \in 1..Len(targets) : targets[i].k # "Name"
            THEN Raised("AttributeError")
            ELSE Ok({ <<targets[i].id, name.val>> : i \in 1..Len(targets) })

\* dict.update: the pairs of new replace those of old with the same key
DictUpdate(old, new) ==
    { p \in old : ~ \E q \in new : q[1] = p[1] } \cup new

RECURSIVE ScrapeNodes(_, _, _, _, _)
\* the loop of lines 258-279 over the nodes of one module, from node i on
ScrapeNodes(module, nodes, i, exc_alias_cache, exceptions) ==
    IF i > Len(nodes) THEN Ok(exceptions)
    ELSE LET node == nodes[i] IN
      IF node.k # "Raise"
      THEN LET aliases == exc_alias_and_type_name_from_assign_ast(node) IN
           IF aliases.raised # "" THEN Raised(aliases.raised)
           ELSE ScrapeNodes(module, nodes, i + 1,
                            DictUpdate(exc_alias_cache, aliases.val), exceptions)
      ELSE LET exc_or_alias_name == exc_type_name_from_raise_ast(node) IN
           IF exc_or_alias_name.raised # "" THEN Raised(exc_or_alias_name.raised)
           \* getattr(module, None, None): attribute name must be string
           ELSE IF exc_or_alias_name.val = NoneId THEN Raised("TypeError")
           ELSE LET exc_type == ModuleAttr(module, exc_or_alias_name.val) IN
                IF exc_type # None
                THEN ScrapeNodes(module, nodes, i + 1, exc_alias_cache,
                                 exceptions \cup {exc_type})
                \* exc_type := (std_excs_map.get(name) is not None)
                ELSE IF std_excs_map(exc_or_alias_name.val) # None
                THEN ScrapeNodes(module, nodes, i + 1, exc_alias_cache,
                                 exceptions \cup {PyTrue})
                ELSE Raised("Warning")

RECURSIVE ScrapeModules(_, _, _, _)
\* the loop of lines 251-279 over the modules, from module i on; read is the
\* sequence of files read so far
ScrapeModules(modules, i, exceptions, read) ==
    IF i > Len(modules) THEN [raised |-> "", val |-> exceptions, read |-> read]
    ELSE LET module == modules[i] IN
      \* inspect.getfile(module)
      IF module.file = ""
      THEN [raised |-> "TypeError", val |-> {}, read |-> read]
      \* Path(...).read_text(file_encoding)
      ELSE IF module.file \notin FilesOnDisk
      THEN [raised |-> "FileNotFoundError", val |-> {}, read |-> read]
      ELSE LET r == ScrapeNodes(module, Walk(ModuleSource(module)), 1, {},
                                exceptions)
           IN IF r.raised # ""
              THEN [raised |-> r.raised, val |-> {},
                    read |-> Append(read, module.file)]
              ELSE ScrapeModules(modules, i + 1, r.val,
                                 Append(read, module.file))

\* a scrape that does not turn builtin modules away
get_raised_no_builtin_check(modules) == ScrapeModules(modules, 1, {}, <<>>)

\* get_raised(*modules), lines 228-282: the set of exceptions found (the tuple
\* is built from it by the caller), or the exception raised
get_raised(modules) ==
    IF \E i \in 1..Len(modules) : modules[i].name \in builtin_module_names
    THEN [raised |-> "ValueError", val |-> {}, read |-> <<>>]
    ELSE ScrapeModules(modules, 1, {}, <<>>)

----------------------------------------------------------------------------
(* The context chain, the traceback resolver and the exception factory *)

\* the exception objects: errs[i] = [type, tb, context, cause], tb the file of
\* each frame of __traceback__ (most recent call last), context and cause the
\* index of __context__ and of __cause__, 0 for None
ExcObject(type, tb, context, cause) ==
    [type |-> type, tb |-> tb, context |-> context, cause |-> cause]

\* a triple that carries the traceback of the exception being handled
Triple_active_tb(i) == [type |-> errs[i].type, value |-> i, tb |-> errs[active].tb]

\* one (type, value, traceback) triple; the value is the exception's index
Triple(i) == [type |-> errs[i].type, value |-> i, tb |-> errs[i].tb]

RECURSIVE ContextWalk_cause_first(_)
\* a walk that takes __cause__ where there is one and __context__ otherwise
ContextWalk_cause_first(i) ==
    <<Triple(i)>> \o
    (IF errs[i].cause # 0 THEN ContextWalk_cause_first(errs[i].cause)
     ELSE IF errs[i].context # 0 THEN ContextWalk_cause_first(errs[i].context)
     ELSE <<>>)

RECURSIVE ContextWalk(_)
\* the loop of lines 418-425: the triple of exception i, then those of its
\* __context__ chain
ContextWalk(i) ==
    <<Triple(i)>> \o
    (IF errs[i].context = 0 THEN <<>> ELSE ContextWalk(errs[i].context))

\* a walk that loses the exception being handled and keeps its context chain
exc_infos_context_only ==
    IF active = 0 THEN <<>>
    ELSE IF errs[active].context = 0 THEN ContextWalk(active)
    ELSE ContextWalk(errs[active].context)

\* exc_infos(), lines 407-426
exc_infos == IF active = 0 THEN <<>> ELSE ContextWalk(active)

\* the dict of lines 370-372: the module registered last under a file name
\* is the one the dict keeps
ModuleOfFile(file) ==
    LET hits == { i \in 1..Len(sys_modules) :
                    sys_modules[i].file # "" /\ sys_modules[i].file = file }
    IN IF hits = {} THEN NoModule
       ELSE sys_modules[CHOOSE i \in hits : \A j \in hits : j <= i]

RECURSIVE get_traceback_modules(_)
\* get_traceback_modules(exc_traceback), lines 362-382
get_traceback_modules(exc_traceback) ==
    IF exc_traceback = <<>> THEN <<>>
    ELSE LET module == ModuleOfFile(Head(exc_traceback)) IN
         (IF module = NoModule THEN <<>> ELSE <<module>>)
         \o get_traceback_modules(Tail(exc_traceback))

\* a factory that hands out the root class instead of a new subclass
random_exception_root(name, sampled) == BaseExceptionT

\* a factory that keeps one class per name
random_exception_by_name(name, sampled) ==
    [kind |-> "type", name |-> IF name \in {NoneId, ""} THEN sampled ELSE name,
     uid |-> 1, base |-> "BaseException"]

\* random_exception(name), lines 109-130: `name or ...` takes the sampled
\* name when name is None or the empty string; type() makes a new class
random_exception(name, sampled) ==
    [kind |-> "type", name |-> IF name \in {NoneId, ""} THEN sampled ELSE name,
     uid |-> ntypes + 1, base |-> "BaseException"]

\* string.ascii_letters
ascii_letters ==
    << "a", "b", "c", "d", "e", "f", "g", "h", "i", "j", "k", "l", "m",
       "n", "o", "p", "q", "r", "s", "t", "u", "v", "w", "x", "y", "z",
       "A", "B", "C", "D", "E", "F", "G", "H", "I", "J", "K", "L", "M",
       "N", "O", "P", "Q", "R", "S", "T", "U", "V", "W", "X", "Y", "Z" >>

\* random.sample(population, k): the elements at k distinct positions, draw
\* being the positions drawn
sample(population, k, draw) == [i \in 1..k |-> population[draw[i]]]

RECURSIVE Join(_)
\* "".join(chars)
Join(chars) == IF chars = <<>> THEN "" ELSE Head(chars) \o Join(Tail(chars))

\* the positions two runs of the generator draw
Draws ==
    { <<1, 28, 3, 30, 5, 32, 7, 34, 9, 36, 11, 38, 13, 40, 15>>,
      <<26, 51, 24, 49, 22, 47, 20, 45, 18, 43, 16, 41, 14, 39, 12>> }

\* the names "".join(sample(ascii_letters, 15)) may give
SampledNames == { Join(sample(ascii_letters, 15, draw)) : draw \in Draws }

----------------------------------------------------------------------------
(* ExceptionFrom *)

\* a lookup that ignores what the caller passed
KwargsGet_default(kwargs, key, default) == default

\* kwargs.get(key, default); kwargs is a sequence of <<key, value>> pairs
KwargsGet(kwargs, key, default) ==
    IF \E i \in 1..Len(kwargs) : kwargs[i][1] = key
    THEN kwargs[CHOOSE i \in 1..Len(kwargs) : kwargs[i][1] = key][2]
    ELSE default

Range(seq) == { seq[i] : i \in 1..Len(seq) }

\* tuple(a set): one of the orders in which the set may be iterated
Tuples(S) ==
    { t \in [1..Cardinality(S) -> S] : \A i, j \in DOMAIN t : i # j => t[i] # t[j] }

\* a loop that reads the traceback of the error being handled and no other
InvolvedOfChain_active_only(exc_info_chain, i) ==
    get_traceback_modules(exc_info_chain[1].tb)

RECURSIVE InvolvedOfChain(_, _)
\* the loop of lines 181-182 over the chain, from triple i on
InvolvedOfChain(exc_info_chain, i) ==
    IF i > Len(exc_info_chain) THEN <<>>
    ELSE get_traceback_modules(exc_info_chain[i].tb)
         \o InvolvedOfChain(exc_info_chain, i + 1)

\* what a construction returns or raises, with the calls it made
Outcome(raised, val, trace) == [raised |-> raised, val |-> val, trace |-> trace]

\* lines 171-194: the two modes, once the arguments are checked
ExceptionFromModes(target_modules, kwargs, sampled) ==
    LET exc_info_chain == exc_infos IN
      \* case when there is a current exception
      IF exc_info_chain # <<>>
      THEN LET involved_modules ==
                 IF KwargsGet(kwargs, "root_only", TRUE)
                 THEN get_traceback_modules(exc_info_chain[Len(exc_info_chain)].tb)
                 ELSE InvolvedOfChain(exc_info_chain, 1)
           IN IF Range(involved_modules) \cap Range(target_modules) # {}
              THEN {Outcome("", [i \in 1..Len(exc_info_chain) |->
                                    exc_info_chain[i].type],
                            <<"exc_infos", "get_traceback_modules">>)}
              ELSE {Outcome("", <<random_exception(NoneId, sampled)>>,
                            <<"exc_infos", "get_traceback_modules",
                              "random_exception">>)}
      \* case when there is no current exception
      ELSE LET r == get_raised(target_modules)
               trace == <<"exc_infos", "get_raised">>
                        \o [i \in 1..Len(r.read) |-> "read_text"]
           IN IF r.raised # "" THEN {Outcome(r.raised, <<>>, trace)}
              ELSE { Outcome("", t, trace) : t \in Tuples(r.val) }

\* a construction that does not check the types of its arguments
ExceptionFromChecked_unchecked(target_modules, kwargs, sampled) ==
    ExceptionFromModes(target_modules, kwargs, sampled)

\* lines 167-194: only allow module types
ExceptionFromChecked(target_modules, kwargs, sampled) ==
    IF \E i \in 1..Len(target_modules) : ~IsModule(target_modules[i])
    THEN {Outcome("TypeError", <<>>, <<>>)}
    ELSE ExceptionFromModes(target_modules, kwargs, sampled)

\* a construction that does not test for no arguments
ExceptionFrom_no_empty_check(target_modules, kwargs, sampled) ==
    ExceptionFromChecked(target_modules, kwargs, sampled)

\* ExceptionFrom.__new__(cls, *target_modules, **kwargs), lines 155-194: the
\* set of outcomes (one, but for the order of a scraped tuple)
ExceptionFrom(target_modules, kwargs, sampled) ==
    \* give nothing for nothing
    IF target_modules = <<>> THEN {Outcome("", <<>>, <<>>)}
    ELSE ExceptionFromChecked(target_modules, kwargs, sampled)

\* __name__ and __file__ of the library's own module
LibName == "exceptlib"
LibFile == "exceptlib.py"

\* sys.modules.get(name)
SysModulesGet(name) ==
    IF \E i \in 1..Len(sys_modules) : sys_modules[i].name = name
    THEN sys_modules[CHOOSE i \in 1..Len(sys_modules) : sys_modules[i].name = name]
    ELSE NoModule

\* ExceptionFrom.here(from_file=...), lines 196-225, called from any module:
\* the arguments handed to cls(...), then the outcomes
HereTargets(from_file) ==
    IF LibFile \notin FilesOnDisk THEN <<>>
    ELSE IF from_file
    THEN << [kind |-> "module", name |-> LibName, file |-> LibFile, id |-> 1] >>
    ELSE IF SysModulesGet(LibName) = NoModule THEN <<>>
    ELSE << SysModulesGet(LibName) >>

here(from_file, sampled) ==
    IF LibFile \in FilesOnDisk /\ ~from_file /\ SysModulesGet(LibName) = NoModule
    THEN {Outcome("NameError", <<>>, <<>>)}
    ELSE ExceptionFrom(HereTargets(from_file), <<>>, sampled)

----------------------------------------------------------------------------
(* The calling program: raising, the except clauses, the plain calls *)

\* the raise statements of the tests: the class raised and the frames of
\* the traceback (secrets.randbelow calls into random, which raises;
\* logging.getLogger raises; the test module itself raises)
RaiseSites ==
    { [type |-> StdType("AttributeError"),
       tb |-> <<"test.py", "secrets.py", "random.py">>],
      [type |-> StdType("TypeError"), tb |-> <<"test.py", "logging.py">>],
      [type |-> StdType("IndexError"), tb |-> <<"test.py">>] }

\* the argument lists the tests and callers pass to ExceptionFrom
TargetLists ==
    { <<>>, <<SecretsMod>>, <<RandomMod>>, <<LoggingMod>>, <<SysMod>>, <<Seven>>,
      <<SecretsMod, RandomMod>>, <<SysMod, RandomMod>>, <<LoggingMod, Seven>> }

\* the keyword arguments
KwargsSets == { <<>>, << <<"root_only", TRUE>> >>, << <<"root_only", FALSE>> >> }

\* the classes named by plain except clauses
ClauseTypes == { StdType("LookupError"), StdType("TypeError") }

NoCall == [targets |-> <<>>, kwargs |-> <<>>, via |-> "", caller |-> ""]
NoOutcome == Outcome("", <<>>, <<>>)
NoScraper ==
    [module |-> NoModule, except_block_excs_stack |-> <<>>,
     exception_alias_cache |-> <<>>, raised_exceptions |-> {}]

TypeClause(type) ==
    [kind |-> "type", type |-> type, targets |-> <<>>, kwargs |-> <<>>]
FromClause(targets, kwargs) ==
    [kind |-> "from", type |-> None, targets |-> targets, kwargs |-> kwargs]

\* isinstance(value, t) for each member t of an except clause's tuple
Matches(i, tuple) ==
    \E k \in 1..Len(tuple) : IsSubclass(errs[i].type, tuple[k])

\* the number of classes an outcome's construction created
Created(outcome) ==
    Cardinality({ k \in 1..Len(outcome.trace) :
                    outcome.trace[k] = "random_exception" })

Init ==
    /\ sys_modules = LoadedModules
    /\ errs = <<>>
    /\ active = 0
    /\ pc = "start"
    /\ clauses = <<>>
    /\ ran = 0
    /\ call = NoCall
    /\ result = NoOutcome
    /\ ntypes = 0
    /\ scraper = NoScraper
    /\ todo = <<>>
    /\ fault = ""
    /\ standard_exceptions = ImportedStandardExceptions(Py311)
    /\ made = <<>>

\* a raise statement runs: the new exception's __context__ is the exception
\* being handled, and it becomes the one being handled
RaiseError(site) ==
    /\ UNCHANGED internals
    /\ pc \in {"start", "raised"}
    /\ Len(errs) < MaxChain
    /\ errs' = Append(errs, ExcObject(site.type, site.tb, active, 0))
    /\ active' = Len(errs) + 1
    /\ pc' = "raised"
    /\ UNCHANGED <<sys_modules, clauses, ran, call, result, ntypes,
                   scraper, todo, fault>>

\* the raise statements that name a cause: those of the test module itself
FromSites == { site \in RaiseSites : site.tb = <<"test.py">> }

\* the class of an exception made to be a cause without being raised
CauseType == StdType("KeyError")

\* `raise ... from cause` runs: __cause__ is the cause, __context__ is still
\* the exception being handled. The cause is that exception (fresh = FALSE)
\* or an instance made on the spot, which has no traceback and no context
RaiseFrom(site, fresh) ==
    /\ UNCHANGED internals
    /\ pc \in {"start", "raised"}
    /\ fresh \/ active # 0
    /\ Len(errs) + (IF fresh THEN 2 ELSE 1) <= MaxChain
    /\ errs' = IF fresh
               THEN errs \o << ExcObject(CauseType, <<>>, 0, 0),
                               ExcObject(site.type, site.tb, active,
                                         Len(errs) + 1) >>
               ELSE Append(errs, ExcObject(site.type, site.tb, active, active))
    /\ active' = Len(errs')
    /\ pc' = "raised"
    /\ UNCHANGED <<sys_modules, clauses, ran, call, result, ntypes,
                   scraper, todo, fault>>

\* the interpreter evaluates the next clause, `except <type>:`
EvalTypeClause(type) ==
    /\ UNCHANGED internals
    /\ pc \in {"raised", "matching"}
    /\ Len(clauses) < MaxClauses
    /\ clauses' = Append(clauses, TypeClause(type))
    /\ IF Matches(active, <<type>>)
       THEN ran' = Len(clauses) + 1 /\ pc' = "handled"
       ELSE ran' = ran /\ pc' = "matching"
    /\ UNCHANGED <<sys_modules, errs, active, call, result, ntypes,
                   scraper, todo, fault>>

\* the interpreter evaluates the next clause,
\* `except ExceptionFrom(*targets, **kwargs):`
EvalFromClause(targets, kwargs, sampled) ==
    /\ UNCHANGED internals
    /\ pc \in {"raised", "matching"}
    /\ Len(clauses) < MaxClauses
    /\ clauses' = Append(clauses, FromClause(targets, kwargs))
    /\ call' = [targets |-> targets, kwargs |-> kwargs, via |-> "clause",
                caller |-> ""]
    /\ \E outcome \in ExceptionFrom(targets, kwargs, sampled) :
        /\ result' = outcome
        /\ ntypes' = ntypes + Created(outcome)
        /\ IF outcome.raised # ""
           \* the clause's expression raised while the error was handled
           THEN /\ errs' = Append(errs,
                      ExcObject(StdType(outcome.raised),
                                <<"test.py", LibFile>>, active, 0))
                /\ active' = Len(errs) + 1
                /\ ran' = ran
                /\ pc' = "aborted"
           ELSE /\ UNCHANGED <<errs, active>>
                /\ IF Matches(active, outcome.val)
                   THEN ran' = Len(clauses) + 1 /\ pc' = "handled"
                   ELSE ran' = ran /\ pc' = "matching"
    /\ UNCHANGED <<sys_modules, scraper, todo, fault>>

\* no clause is left: the error propagates out of the try statement
FallThrough ==
    /\ UNCHANGED internals
    /\ pc = "matching"
    /\ pc' = "unhandled"
    /\ UNCHANGED <<sys_modules, errs, active, clauses, ran, call, result,
                   ntypes, scraper, todo, fault>>

\* ExceptionFrom(*targets, **kwargs) called outside any handler
PlainCall(targets, kwargs, sampled) ==
    /\ UNCHANGED internals
    /\ pc = "start"
    /\ call' = [targets |-> targets, kwargs |-> kwargs, via |-> "call",
                caller |-> ""]
    /\ \E outcome \in ExceptionFrom(targets, kwargs, sampled) :
        /\ result' = outcome
        /\ ntypes' = ntypes + Created(outcome)
    /\ pc' = "called"
    /\ UNCHANGED <<sys_modules, errs, active, clauses, ran, scraper, todo, fault>>

\* the modules whose code may call ExceptionFrom.here()
Callers == { TestMod, SecretsMod }

\* ExceptionFrom.here(from_file=...) called from module caller, outside any
\* handler or in the body of one
HereCall(caller, from_file, sampled) ==
    /\ UNCHANGED internals
    /\ pc \in {"start", "raised"}
    /\ call' = [targets |-> HereTargets(from_file),
                kwargs |-> << <<"from_file", from_file>> >>,
                via |-> "here", caller |-> caller.name]
    /\ \E outcome \in here(from_file, sampled) :
        /\ result' = outcome
        /\ ntypes' = ntypes + Created(outcome)
    /\ pc' = "called"
    /\ UNCHANGED <<sys_modules, errs, active, clauses, ran, scraper, todo, fault>>

\* exc_infos() called outside any handler or in the body of one
CallExcInfos ==
    /\ UNCHANGED internals
    /\ pc \in {"start", "raised"}
    /\ call' = [targets |-> <<>>, kwargs |-> <<>>, via |-> "exc_infos",
                caller |-> ""]
    /\ result' = Outcome("", exc_infos, <<>>)
    /\ pc' = "called"
    /\ UNCHANGED <<sys_modules, errs, active, clauses, ran, ntypes,
                   scraper, todo, fault>>

Next ==
    \/ \E site \in RaiseSites : RaiseError(site)
    \/ \E site \in FromSites, fresh \in BOOLEAN : RaiseFrom(site, fresh)
    \/ CallExcInfos
    \/ \E type \in ClauseTypes : EvalTypeClause(type)
    \/ \E targets \in TargetLists, kwargs \in KwargsSets, sampled \in SampledNames :
          EvalFromClause(targets, kwargs, sampled)
    \/ FallThrough
    \/ \E targets \in TargetLists, kwargs \in KwargsSets, sampled \in SampledNames :
          PlainCall(targets, kwargs, sampled)
    \/ \E caller \in Callers, from_file \in BOOLEAN, sampled \in SampledNames :
          HereCall(caller, from_file, sampled)

Spec == Init /\ [][Next]_vars

----------------------------------------------------------------------------
(* ExceptionTypeScraper *)

\* a tuple of classes, as a value that can stand where a class stands
PyTuple(elts) ==
    [kind |-> "tuple", name |-> "", uid |-> 0, base |-> "", elts |-> elts]

\* issubclass(v, BaseException): TypeError when v is not a class
IsExcClass(v) == v.kind = "type" /\ IsSubclass(v, BaseExceptionT)

\* ExceptionTypeScraper.id_from_call_or_name_ast(node), lines 483-505
method_id_from_call_or_name_ast(node) ==
    IF node.k \notin {"Call", "Name"} THEN Raised("TypeError")
    ELSE IF node.k = "Call"
    THEN IF node.func.k # "Name" THEN Ok(NoneId) ELSE Ok(node.func.id)
    ELSE Ok(node.id)

\* ExceptionTypeScraper.exc_from_name(node_id), lines 444-465, self.module
\* being module: the catalog first, then getattr(self.module, node_id, None),
\* which raises TypeError when node_id is None
exc_from_name(module, node_id) ==
    IF node_id # NoneId /\ std_excs_map(node_id) # None
    THEN Ok(std_excs_map(node_id))
    ELSE IF node_id = NoneId THEN Raised("TypeError")
    ELSE Ok(ModuleAttr(module, node_id))

\* the class an expression that is a Call or a Name stands for: the result of
\* lines 525-530, 538-543, 576-579 and 586-589 up to the issubclass test
\* ("skip": the method returns; otherwise the class, or the exception)
ClassOf(module, node, strict) ==
    LET exc_name == method_id_from_call_or_name_ast(node) IN
    IF exc_name.raised # "" THEN exc_name
    ELSE IF ~strict /\ exc_name.val = NoneId THEN Raised("skip")
    ELSE LET exc_type == exc_from_name(module, exc_name.val) IN
         IF exc_type.raised # "" THEN exc_type
         ELSE IF ~strict /\ exc_type.val = None THEN Raised("skip")
         \* issubclass(x, BaseException) of something that is not a class,
         \* None included
         ELSE IF exc_type.val.kind # "type" THEN Raised("TypeError")
         ELSE IF ~IsExcClass(exc_type.val)
         THEN Raised(IF strict THEN "RuntimeError" ELSE "skip")
         ELSE exc_type

RECURSIVE ClassesOf(_, _, _, _)
\* the loops of lines 535-544 and 583-590 over the elements of a Tuple node,
\* from element i on: the classes, "skip" when the method returns, or the
\* exception
ClassesOf(module, elts, i, handler) ==
    IF i > Len(elts) THEN Ok(<<>>)
    ELSE IF elts[i].k \notin {"Call", "Name"} THEN Raised("skip")
    ELSE LET exc_name == method_id_from_call_or_name_ast(elts[i]) IN
         IF ~handler /\ exc_name.val = NoneId THEN Raised("skip")
         ELSE LET exc_type == exc_from_name(module, exc_name.val) IN
              IF exc_type.raised # "" THEN exc_type
              ELSE IF ~handler /\ exc_type.val = None THEN Raised("skip")
              ELSE IF exc_type.val.kind # "type" THEN Raised("TypeError")
              ELSE IF ~IsExcClass(exc_type.val) THEN Raised("skip")
              ELSE LET rest == ClassesOf(module, elts, i + 1, handler) IN
                   IF rest.raised # "" THEN rest
                   ELSE Ok(<<exc_type.val>> \o rest.val)

\* the scraper after a visit method, and the exception the method raised
Visited(self, raised) == [self |-> self, raised |-> raised]

RECURSIVE AliasTargets(_, _, _, _)
\* the loop of lines 552-556 over the targets, from target i on
AliasTargets(self, targets, i, exc_type) ==
    IF i > Len(targets) THEN Visited(self, "")
    ELSE IF targets[i].k # "Name" THEN Visited(self, "TypeError")
    ELSE AliasTargets(
            [self EXCEPT !.exception_alias_cache =
                Append(@, <<targets[i].id, exc_type>>)],
            targets, i + 1, exc_type)

\* ExceptionTypeScraper.visit_Assign(node), lines 507-556; the cache is the
\* sequence of the (name, value) pairs appended
visit_Assign(self, node) ==
    IF node.value.k \in {"Call", "Name"}
    THEN LET exc_type == ClassOf(self.module, node.value, FALSE) IN
         IF exc_type.raised = "skip" THEN Visited(self, "")
         ELSE IF exc_type.raised # "" THEN Visited(self, exc_type.raised)
         ELSE AliasTargets(self, node.targets, 1, exc_type.val)
    ELSE IF node.value.k = "Tuple"
    THEN LET exc_types == ClassesOf(self.module, node.value.elts, 1, FALSE) IN
         IF exc_types.raised = "skip" THEN Visited(self, "")
         ELSE IF exc_types.raised # "" THEN Visited(self, exc_types.raised)
         ELSE AliasTargets(self, node.targets, 1, PyTuple(exc_types.val))
    ELSE Visited(self, "")

\* lines 593-604: the handler's class is pushed, and with `as name` cached
\* and added to the result for each `raise name` of the handler's body
PushHandler(self, node, exc_type) ==
    LET pushed == [self EXCEPT !.except_block_excs_stack = Append(@, exc_type)]
    IN IF node.name = NoName THEN Visited(pushed, "")
       ELSE Visited(
              [pushed EXCEPT
                 !.exception_alias_cache = Append(@, <<node.name, exc_type>>),
                 !.raised_exceptions =
                    IF \E i \in 1..Len(node.body) :
                          /\ node.body[i].k = "Raise"
                          /\ node.body[i].exc.k = "Name"
                          /\ node.body[i].exc.id = node.name
                    THEN @ \cup {exc_type} ELSE @],
              "")

\* ExceptionTypeScraper.visit_ExceptHandler(node), lines 558-604
visit_ExceptHandler(self, node) ==
    IF node.type = NoNode THEN PushHandler(self, node, BaseExceptionT)
    ELSE IF node.type.k \in {"Call", "Name"}
    THEN LET exc_type == ClassOf(self.module, node.type, TRUE) IN
         IF exc_type.raised # "" THEN Visited(self, exc_type.raised)
         ELSE PushHandler(self, node, exc_type.val)
    ELSE IF node.type.k = "Tuple"
    THEN LET exc_types == ClassesOf(self.module, node.type.elts, 1, TRUE) IN
         IF exc_types.raised = "skip" THEN Visited(self, "")
         ELSE IF exc_types.raised # "" THEN Visited(self, exc_types.raised)
         ELSE PushHandler(self, node, PyTuple(exc_types.val))
    \* no branch binds exc_type before line 594 reads it
    ELSE Visited(self, "UnboundLocalError")

\* ExceptionTypeScraper.visit_Raise(node), lines 606-636
visit_Raise(self, node) ==
    IF node.exc = NoNode
    THEN LET stack == self.except_block_excs_stack IN
         IF stack = <<>> THEN Visited(self, "IndexError")
         ELSE Visited(
                [self EXCEPT
                   !.except_block_excs_stack = SubSeq(stack, 1, Len(stack) - 1),
                   !.raised_exceptions = @ \cup {stack[Len(stack)]}],
                "")
    ELSE LET exc_name == method_id_from_call_or_name_ast(node.exc) IN
         IF exc_name.raised # "" THEN Visited(self, exc_name.raised)
         ELSE LET exc_type == exc_from_name(self.module, exc_name.val) IN
              IF exc_type.raised # "" THEN Visited(self, exc_type.raised)
              ELSE IF exc_type.val = None THEN Visited(self, "RuntimeError")
              ELSE Visited([self EXCEPT !.raised_exceptions = @ \cup {exc_type.val}],
                           "")

\* ExceptionTypeScraper.clear(), lines 468-481
clear(self) ==
    [module |-> NoModule, except_block_excs_stack |-> <<>>,
     exception_alias_cache |-> <<>>, raised_exceptions |-> {}]

\* ExceptionTypeScraper.__init__(module), lines 432-442
NewScraper(module) ==
    [module |-> module, except_block_excs_stack |-> <<>>,
     exception_alias_cache |-> <<>>, raised_exceptions |-> {}]

\* the fixture of tests/unit/test_internals.py:46-76, after its leading raise
DummySource ==
    << RaiseName("Exception"),
       RaiseCall("BaseException"),
       TryExcept(<<Expr(Call(Name("list"), <<Name("map")>>))>>,
                 Name("TypeError"), NoName, <<BareRaise>>),
       TryExcept(<<Expr(Subscript(Call(Name("list"), <<>>)))>>,
                 Name("IndexError"), NoName, <<RaiseName("ImportError")>>),
       TryExcept(<<Expr(Subscript(Call(Name("dict"), <<>>)))>>,
                 Name("KeyError"), "e", <<RaiseName("e")>>),
       AssignName("my_exc", "ZeroDivisionError"),
       RaiseName("my_exc"),
       AssignName("my_other_exc", "my_exc"),
       RaiseName("my_other_exc") >>

\* the function of tests/unit/test_internals.py:8-39, its statements that
\* assign, handle or raise
OsSource ==
    << FunctionDef(
         << AssignName("exec_func", "execve"),
            Assign(<<Name("saved_exc")>>, Constant),
            Try(<<Expr(Call(Name("exec_func"), <<Name("fullname")>>))>>,
                << ExceptHandler(
                     TupleNode(<<Name("FileNotFoundError"),
                                 Name("NotADirectoryError")>>),
                     "e", <<AssignName("last_exc", "e")>>),
                   ExceptHandler(Name("OSError"), "e",
                                 <<AssignName("last_exc", "e")>>) >>),
            RaiseName("saved_exc"),
            RaiseName("last_exc") >>) >>

\* sources with a raise after a handler, a tuple bound to a name, a class of
\* another module's namespace
StraySource ==
    << RaiseCall("ValueError"),
       TryExcept(<<RaiseName("KeyError")>>, NoNode, NoName, <<BareRaise>>),
       BareRaise,
       Assign(<<Name("both")>>, TupleNode(<<Name("KeyError"), Name("IndexError")>>)),
       Raise(Call(Attribute(Name("re"), "error"), <<Constant>>)) >>

AttrSource ==
    << Assign(<<Name("a"), Attribute(Name("self"), "b")>>, Call(Name("OSError"), <<>>)),
       TryExcept(<<RaiseCall("TimeoutError")>>, Attribute(Name("re"), "error"),
                 NoName, <<BareRaise>>) >>

\* a handler of a tuple of classes that raises again, and a handler inside
\* a handler, each with its own bare raise
NestedSource ==
    << TryExcept(<<Expr(Subscript(Name("d")))>>,
                 TupleNode(<<Name("KeyError"), Name("IndexError")>>), NoName,
                 <<BareRaise>>),
       TryExcept(<<Expr(Call(Name("int"), <<Name("s")>>))>>,
                 Name("ValueError"), NoName,
                 << TryExcept(<<Expr(Call(Name("open"), <<Name("s")>>))>>,
                              Name("OSError"), NoName, <<BareRaise>>),
                    BareRaise >>) >>

\* a handler that does not raise, left before a bare raise at module level
LateStraySource ==
    << TryExcept(<<Expr(Subscript(Name("d")))>>, Name("KeyError"), NoName,
                 <<Expr(Constant)>>),
       BareRaise >>

\* names bound to a class, to a call of a class and to another name, raised
\* inside a function
AliasSource ==
    << AssignName("a", "KeyError"),
       Assign(<<Name("b")>>, Call(Name("OSError"), <<Constant>>)),
       AssignName("c", "a"),
       FunctionDef(<< RaiseName("c"), RaiseName("b") >>) >>

ScrapeSources ==
    { DummySource, <<BareRaise>> \o DummySource, OsSource, StraySource,
      AttrSource, ModuleSource(LoggingMod).body, NestedSource,
      LateStraySource, AliasSource }

\* the module objects a scraper is made for
ScraperModules == { NoModule, DummyMod, DummyLoadedMod, LoggingMod }

InitScraper ==
    /\ sys_modules = LoadedModules
    /\ errs = <<>>
    /\ active = 0
    /\ clauses = <<>>
    /\ ran = 0
    /\ result = NoOutcome
    /\ ntypes = 0
    /\ pc = "visiting"
    /\ fault = ""
    /\ standard_exceptions = ImportedStandardExceptions(Py311)
    /\ made = <<>>
    /\ \E module \in ScraperModules, source \in ScrapeSources :
        /\ scraper = NewScraper(module)
        /\ todo = <<ModuleNode(source)>>
        /\ call = [targets |-> <<ModuleNode(source)>>, kwargs |-> <<>>,
                   via |-> "visit", caller |-> module.name]

\* what a visit method leaves: the scraper, and the walk ended by an
\* exception or carried on with the nodes left
AfterVisit(v) ==
    /\ scraper' = v.self
    /\ fault' = v.raised
    /\ todo' = Tail(todo)
    /\ pc' = IF v.raised # "" THEN "failed"
             ELSE IF Tail(todo) = <<>> THEN "done" ELSE "visiting"

\* NodeVisitor.visit dispatches the next node to visit_Raise
VisitRaise ==
    /\ UNCHANGED internals
    /\ pc = "visiting" /\ todo # <<>> /\ Head(todo).k = "Raise"
    /\ AfterVisit(visit_Raise(scraper, Head(todo)))
    /\ UNCHANGED <<sys_modules, errs, active, clauses, ran, call, result, ntypes>>

\* NodeVisitor.visit dispatches the next node to visit_Assign
VisitAssign ==
    /\ UNCHANGED internals
    /\ pc = "visiting" /\ todo # <<>> /\ Head(todo).k = "Assign"
    /\ AfterVisit(visit_Assign(scraper, Head(todo)))
    /\ UNCHANGED <<sys_modules, errs, active, clauses, ran, call, result, ntypes>>

\* NodeVisitor.visit dispatches the next node to visit_ExceptHandler
VisitExceptHandler ==
    /\ UNCHANGED internals
    /\ pc = "visiting" /\ todo # <<>> /\ Head(todo).k = "ExceptHandler"
    /\ AfterVisit(visit_ExceptHandler(scraper, Head(todo)))
    /\ UNCHANGED <<sys_modules, errs, active, clauses, ran, call, result, ntypes>>

\* NodeVisitor.generic_visit: a node of any other class is replaced by its
\* children, which are visited before the nodes that follow it
GenericVisit ==
    /\ UNCHANGED internals
    /\ pc = "visiting" /\ todo # <<>>
    /\ Head(todo).k \notin {"Raise", "Assign", "ExceptHandler"}
    /\ todo' = Children(Head(todo)) \o Tail(todo)
    /\ pc' = IF todo' = <<>> THEN "done" ELSE "visiting"
    /\ UNCHANGED <<sys_modules, errs, active, clauses, ran, call, result, ntypes,
                   scraper, fault>>

\* clear() once the walk has ended
Clear ==
    /\ UNCHANGED internals
    /\ pc \in {"done", "failed"}
    /\ scraper' = clear(scraper)
    /\ pc' = "cleared"
    /\ UNCHANGED <<sys_modules, errs, active, clauses, ran, call, result, ntypes,
                   todo, fault>>

NextScraper ==
    \/ VisitRaise
    \/ VisitAssign
    \/ VisitExceptHandler
    \/ GenericVisit
    \/ Clear

SpecScraper == InitScraper /\ [][NextScraper]_vars

----------------------------------------------------------------------------
(* The internals called directly, as tests/unit/test_internals.py calls them *)

\* the number of classes the direct calls make
MaxMade == 3

\* the names passed to random_exception
NameArgs == { "", "Foo", "Bar", "KeyError" }

\* the parameter name of random_exception(name=None, **attributes) as the
\* call binds it: the positional argument, or the keyword, or the default
BindName(args, kwargs) ==
    IF args # <<>> THEN args[1] ELSE KwargsGet(kwargs, "name", NoneId)

\* the ways of passing at most one name
NameCalls ==
    { [args |-> <<>>, kwargs |-> <<>>] }
    \cup { [args |-> <<n>>, kwargs |-> <<>>] : n \in NameArgs }
    \cup { [args |-> <<>>, kwargs |-> << <<"name", n>> >>] : n \in NameArgs }

\* the module imported by one of the interpreters, nothing called yet
InitInternals ==
    /\ sys_modules = LoadedModules
    /\ errs = <<>>
    /\ active = 0
    /\ pc = "start"
    /\ clauses = <<>>
    /\ ran = 0
    /\ call = NoCall
    /\ result = NoOutcome
    /\ ntypes = 0
    /\ scraper = NoScraper
    /\ todo = <<>>
    /\ fault = ""
    /\ \E builtins \in Runtimes :
          standard_exceptions = ImportedStandardExceptions(builtins)
    /\ made = <<>>

\* what the direct calls leave alone
handling == <<sys_modules, errs, active, pc, clauses, ran, scraper, todo, fault>>

\* random_exception(*args, **kwargs); the letters are drawn only when the
\* name is None or empty
CallRandomException(c, draw) ==
    /\ Len(made) < MaxMade
    /\ LET name == BindName(c.args, c.kwargs)
           drawn == IF name \in {NoneId, ""}
                    THEN sample(ascii_letters, 15, draw) ELSE <<>>
           exc == random_exception(name, Join(drawn))
       IN /\ call' = [targets |-> c.args, kwargs |-> c.kwargs,
                      via |-> "random_exception", caller |-> "",
                      drawn |-> drawn]
          /\ result' = Outcome("", <<exc>>, <<"random_exception">>)
          /\ made' = Append(made, exc)
    /\ ntypes' = ntypes + 1
    /\ UNCHANGED handling
    /\ UNCHANGED standard_exceptions

\* the names looked up in the catalog: the first and the last of the tuple,
\* one between, the conditional ones and one that is no exception's name
LookupNames ==
    {"BaseException", "KeyError", "UserWarning", "Foo"}
    \cup Range(conditional_exceptions)

\* std_excs_map.get(name)
CallStdExcsMapGet(name) ==
    /\ call' = [targets |-> <<name>>, kwargs |-> <<>>,
                via |-> "std_excs_map.get", caller |-> ""]
    /\ result' = Outcome("", <<std_excs_map(name)>>, <<>>)
    /\ UNCHANGED handling
    /\ UNCHANGED <<ntypes, standard_exceptions, made>>

\* the tracebacks handed to get_traceback_modules: the file of each frame,
\* most recent call last; unknown.py is the file of no loaded module
Tracebacks ==
    { <<"test.py", "secrets.py", "random.py">>, <<"test.py", "logging.py">>,
      <<"test.py">>, <<"secrets.py", "unknown.py">>, <<"unknown.py">>, <<>> }

\* get_traceback_modules(tb)
CallGetTracebackModules(tb) ==
    /\ call' = [targets |-> <<>>, kwargs |-> <<>>,
                via |-> "get_traceback_modules", caller |-> "", tb |-> tb]
    /\ result' = Outcome("", get_traceback_modules(tb), <<>>)
    /\ UNCHANGED handling
    /\ UNCHANGED <<ntypes, standard_exceptions, made>>

\* an instance of a class, and a traceback object
Instance(type) ==
    [kind |-> "instance", name |-> "", uid |-> 0, base |-> "", type |-> type]
TracebackObject(tb) ==
    [kind |-> "traceback", name |-> "", uid |-> 0, base |-> "", tb |-> tb]
PyFalse == Object("False")

\* isinstance(obj, cls): TypeError when cls is not a class; a class is an
\* instance of type, not of itself
IsInstance(obj, cls) ==
    IF cls.kind # "type" THEN Raised("TypeError")
    ELSE Ok(obj.kind = "instance" /\ IsSubclass(obj.type, cls))

\* is_hot_exc_info(obj), lines 385-404
is_hot_exc_info(obj) ==
    IF obj.kind = "tuple" /\ Len(obj.elts) = 3
    THEN IF obj.elts[1] = None THEN Ok(PyFalse)
         ELSE IF ~IsInstance(obj.elts[1], BaseExceptionT).val THEN Ok(PyFalse)
         ELSE LET second == IsInstance(obj.elts[2], obj.elts[1]) IN
              IF second.raised # "" THEN Raised(second.raised)
              ELSE IF ~second.val THEN Ok(PyFalse)
              ELSE IF obj.elts[3].kind # "traceback" THEN Ok(PyFalse)
              ELSE Ok(PyTrue)
    ELSE Ok(PyFalse)

\* the objects handed to is_hot_exc_info: what sys.exc_info() gives while a
\* KeyError is handled and when nothing is, and objects that are neither
HotCandidates ==
    LET KeyErrorT == StdType("KeyError")
        tb == TracebackObject(<<"test.py">>)
    IN { PyTuple(<<KeyErrorT, Instance(KeyErrorT), tb>>),
         PyTuple(<<StdType("LookupError"), Instance(KeyErrorT), tb>>),
         PyTuple(<<None, None, None>>),
         PyTuple(<<Instance(KeyErrorT), Instance(KeyErrorT), tb>>),
         PyTuple(<<KeyErrorT, Instance(StdType("OSError")), tb>>),
         PyTuple(<<KeyErrorT, Instance(KeyErrorT), None>>),
         PyTuple(<<Seven, Seven, Seven>>),
         PyTuple(<<KeyErrorT, Instance(KeyErrorT)>>),
         PyTuple(<<KeyErrorT, Instance(KeyErrorT), tb, None>>),
         Seven, None }

\* is_hot_exc_info(obj)
CallIsHotExcInfo(obj) ==
    /\ call' = [targets |-> <<>>, kwargs |-> <<>>,
                via |-> "is_hot_exc_info", caller |-> "", obj |-> obj]
    /\ LET r == is_hot_exc_info(obj) IN
          result' = IF r.raised # "" THEN Outcome(r.raised, <<>>, <<>>)
                    ELSE Outcome("", <<r.val>>, <<>>)
    /\ UNCHANGED handling
    /\ UNCHANGED <<ntypes, standard_exceptions, made>>

NextInternals ==
    \/ \E c \in NameCalls, draw \in Draws : CallRandomException(c, draw)
    \/ \E name \in LookupNames : CallStdExcsMapGet(name)
    \/ \E tb \in Tracebacks : CallGetTracebackModules(tb)
    \/ \E obj \in HotCandidates : CallIsHotExcInfo(obj)

SpecInternals == InitInternals /\ [][NextInternals]_vars

----------------------------------------------------------------------------
(* What the properties speak of *)

\* the error the try statement is handling: when a clause's own expression
\* raised, the new exception's context
TheError == IF pc = "aborted" THEN errs[active].context ELSE active

RECURSIVE RootCause(_)
\* the earliest error of the context chain of error i
RootCause(i) == IF errs[i].context = 0 THEN i ELSE RootCause(errs[i].context)

RECURSIVE ChainOf(_)
\* the errors of the context chain of error i
ChainOf(i) ==
    {i} \cup (IF errs[i].context = 0 THEN {} ELSE ChainOf(errs[i].context))

\* the modules resolved from the frames of error i's traceback
ResolvedFrom(i) == Range(get_traceback_modules(errs[i].tb))

\* the implicated modules of a construction made while error i is handled
Implicated(i, root_only) ==
    IF root_only THEN ResolvedFrom(RootCause(i))
    ELSE UNION { ResolvedFrom(j) : j \in ChainOf(i) }

\* root_only as the caller gave it, true by default
RootOnly(kwargs) == <<"root_only", FALSE>> \notin Range(kwargs)

\* one or more arguments, all of them modules
ModulesOnly(targets) ==
    targets # <<>> /\ \A i \in 1..Len(targets) : IsModule(targets[i])

\* the clause evaluated last is an ExceptionFrom clause
LastIsFrom == clauses # <<>> /\ clauses[Len(clauses)].kind = "from"

\* the clause evaluated last is the one whose body runs
LastFired == pc = "handled" /\ ran = Len(clauses)

\* the last construction was made while an error was being handled
LiveCall == call.via \in {"clause", "here"} /\ TheError # 0

\* the last construction was made with no error being handled
StaticCall == call.via \in {"call", "here"} /\ active = 0

\* clause c names an implicated module
NamesImplicated(c) ==
    /\ ModulesOnly(c.targets)
    /\ Range(c.targets) \cap Implicated(TheError, RootOnly(c.kwargs)) # {}

\* the condition of clause c matches the error being handled
ConditionMatches(c) ==
    IF c.kind = "type" THEN IsSubclass(errs[TheError].type, c.type)
    ELSE NamesImplicated(c)

----------------------------------------------------------------------------
(* C1 *)

----------------------------------------------------------------------------
(* C2 *)

\* C2: a construction from one or more modules, made while an error is
\* handled, none of which is implicated returns a one-element tuple holding a
\* class created by that call, which is neither the class nor a base class of
\* any error of the chain; the clause guarded by it does not run, whatever
\* clauses come before or after, and the error is still the one being handled.
C2_UninvolvedTargetNeverFires ==
    /\ (LiveCall /\ ModulesOnly(call.targets)
        /\ Range(call.targets) \cap Implicated(TheError, RootOnly(call.kwargs)) = {})
       => /\ result.raised = ""
          /\ Len(result.val) = 1
          /\ result.val[1].kind = "type"
          /\ result.val[1].uid = ntypes /\ ntypes > 0
          /\ \A j \in ChainOf(TheError) : ~IsSubclass(errs[j].type, result.val[1])
          /\ active = TheError
    /\ \A k \in 1..Len(clauses) :
          (clauses[k].kind = "from" /\ ModulesOnly(clauses[k].targets)
           /\ ~NamesImplicated(clauses[k])) => ran # k

\* an uninvolved module named in the first clause, and a later clause runs
C2_Witness ==
    /\ pc = "handled" /\ ran = 2
    /\ clauses[1].kind = "from" /\ ModulesOnly(clauses[1].targets)
    /\ ~NamesImplicated(clauses[1])
    /\ ntypes = 1

----------------------------------------------------------------------------
(* C3 *)

\* C3: the clause that runs is the first one in source order whose condition
\* matches the error being handled (a plain clause: its class is the error's
\* class or a base of it; an ExceptionFrom clause: it names an implicated
\* module); when none matches none runs.
C3_FirstMatchingClauseRuns ==
    /\ pc = "handled" =>
          /\ ran = Len(clauses)
          /\ ConditionMatches(clauses[ran])
          /\ \A j \in 1..(ran - 1) : ~ConditionMatches(clauses[j])
    /\ pc \in {"matching", "unhandled"} =>
          /\ ran = 0
          /\ \A j \in 1..Len(clauses) : ~ConditionMatches(clauses[j])
    /\ pc = "aborted" =>
          /\ ran = 0
          /\ \A j \in 1..(Len(clauses) - 1) : ~ConditionMatches(clauses[j])

\* a plain clause that does not match is passed over and the ExceptionFrom
\* clause after it, which names the root cause's module, runs
C3_Witness ==
    /\ pc = "handled" /\ ran = 2
    /\ clauses[1].kind = "type" /\ clauses[2].kind = "from"
    /\ errs[active].context # 0

----------------------------------------------------------------------------
(* C4 *)

\* the modules of the frame that raised error i
RaiserOf(i) ==
    Range(get_traceback_modules(<<errs[i].tb[Len(errs[i].tb)]>>))

\* the modules that are in error i's traceback only as callers
CallersOf(i) ==
    Range(get_traceback_modules(SubSeq(errs[i].tb, 1, Len(errs[i].tb) - 1)))
    \ RaiserOf(i)

\* C4: while a single error is handled, a clause naming only modules that
\* are in its traceback as callers of the module that raised it does not run
\* with the default root_only and runs with root_only=False, and a clause
\* naming the module whose frame raised the error runs with the default.
C4_RootOnlyExcludesCallers ==
    (LastIsFrom /\ pc # "aborted" /\ errs[active].context = 0
     /\ ModulesOnly(clauses[Len(clauses)].targets)
     /\ \A j \in 1..(Len(clauses) - 1) : ~ConditionMatches(clauses[j]))
    => LET c == clauses[Len(clauses)] IN
       /\ (Range(c.targets) \subseteq CallersOf(active) /\ RootOnly(c.kwargs))
             => ~LastFired
       /\ (Range(c.targets) \subseteq CallersOf(active) /\ ~RootOnly(c.kwargs))
             => LastFired
       /\ (Range(c.targets) \subseteq RaiserOf(active) /\ RootOnly(c.kwargs))
             => LastFired

----------------------------------------------------------------------------
(* C5 *)

\* C5: a construction from no module returns the empty tuple, with or
\* without an error being handled and whatever root_only is, and the clause
\* guarded by it does not run.
C5_NoModulesGivesEmpty ==
    /\ (call.via \in {"clause", "call"} /\ call.targets = <<>>)
       => result = Outcome("", <<>>, <<>>)
    /\ \A k \in 1..Len(clauses) :
          (clauses[k].kind = "from" /\ clauses[k].targets = <<>>) => ran # k

\* the empty construction as a clause while an error is handled, root_only
\* given as False: the clause is passed over
C5_Witness ==
    /\ pc = "matching" /\ LastIsFrom /\ active # 0
    /\ call.targets = <<>> /\ ~RootOnly(call.kwargs)

----------------------------------------------------------------------------
(* C6 *)

\* C6: a construction with an argument that is not a module raises TypeError
\* and returns nothing, with or without an error being handled and whatever
\* root_only is, before the chain is walked, a traceback resolved or a
\* source read.
C6_NonModuleRaisesTypeError ==
    (call.via \in {"clause", "call"}
     /\ \E i \in 1..Len(call.targets) : ~IsModule(call.targets[i]))
    => /\ result = Outcome("TypeError", <<>>, <<>>)
       /\ call.via = "clause" => pc = "aborted" /\ ran = 0

\* a non-module beside a module, as a clause, root_only given as False
C6_Witness ==
    /\ pc = "aborted" /\ call.via = "clause"
    /\ call.targets = <<LoggingMod, Seven>> /\ ~RootOnly(call.kwargs)

----------------------------------------------------------------------------
(* C7 *)

\* C7: with no error being handled, a construction from modules of which one
\* is a builtin raises ValueError before any source file is read and returns
\* nothing, also when the other modules can be scraped and whatever
\* root_only is.
C7_BuiltinRaisesValueError ==
    (StaticCall /\ ModulesOnly(call.targets)
     /\ \E i \in 1..Len(call.targets) :
           call.targets[i].name \in builtin_module_names)
    => /\ result.raised = "ValueError"
       /\ result.val = <<>>
       /\ "read_text" \notin Range(result.trace)

\* the builtin beside a module that can be scraped
C7_Witness ==
    /\ pc = "called" /\ call.via = "call"
    /\ call.targets = <<SysMod, RandomMod>> /\ ~RootOnly(call.kwargs)

----------------------------------------------------------------------------
(* C8 *)

\* the error types named at the raise statements of module m's source: the
\* names looked up in the module, then in the catalog
NamedAtRaises(m) ==
    LET nodes == Walk(ModuleSource(m))
        ids == { nodes[i].exc.id : i \in { k \in 1..Len(nodes) :
                     nodes[k].k = "Raise" /\ nodes[k].exc.k = "Name" } }
               \cup
               { nodes[i].exc.func.id : i \in { k \in 1..Len(nodes) :
                     /\ nodes[k].k = "Raise" /\ nodes[k].exc.k = "Call"
                     /\ nodes[k].exc.func.k = "Name" } }
        lookup(id) == IF ModuleAttr(m, id) # None THEN ModuleAttr(m, id)
                      ELSE std_excs_map(id)
    IN { lookup(id) : id \in ids } \ {None}

\* the modules of a list are backed by a file and are not builtins
Scrapable(targets) ==
    /\ ModulesOnly(targets)
    /\ \A i \in 1..Len(targets) :
          /\ targets[i].file \in FilesOnDisk
          /\ targets[i].name \notin builtin_module_names

\* C8: with no error being handled, a construction from file-backed modules
\* that are not builtins raises nothing and returns the union over the
\* modules of the error types named at their raise statements, each once and
\* nothing that is not an error type.
C8_StaticCallReturnsRaisedTypes ==
    (call.via = "call" /\ Scrapable(call.targets))
    => /\ result.raised = ""
       /\ Range(result.val)
            = UNION { NamedAtRaises(call.targets[i]) : i \in 1..Len(call.targets) }
       /\ Cardinality(Range(result.val)) = Len(result.val)
       /\ \A i \in 1..Len(result.val) : IsSubclass(result.val[i], BaseExceptionT)

----------------------------------------------------------------------------
(* C9 *)

\* the six classes the fixture's raise statements raise
FixtureTypes ==
    { StdType("Exception"), StdType("BaseException"), StdType("TypeError"),
      StdType("ImportError"), StdType("KeyError"), StdType("ZeroDivisionError") }

\* C9: the visitor run over the fixture (raise Exception; raise
\* BaseException("bork"); a bare raise in `except TypeError`; raise
\* ImportError in `except IndexError`; raise e in `except KeyError as e`;
\* my_exc = ZeroDivisionError, raise my_exc; my_other_exc = my_exc, raise
\* my_other_exc) ends with raised_exceptions equal to {Exception,
\* BaseException, TypeError, ImportError, KeyError, ZeroDivisionError}.
C9_FixtureScrapeIsExact ==
    (pc \in {"done", "failed"} /\ call.via = "visit"
     /\ call.targets = <<ModuleNode(DummySource)>>)
    => /\ fault = ""
       /\ scraper.raised_exceptions = FixtureTypes

----------------------------------------------------------------------------
(* C10 *)

\* C10: here() called from module M with no error being handled returns the
\* error types scraped from M, the module that holds the call, and from no
\* other module.
C10_HereScrapesTheCaller ==
    (call.via = "here" /\ active = 0)
    => /\ \A i \in 1..Len(call.targets) : call.targets[i].name = call.caller
       /\ result.raised = ""
       /\ Range(result.val) = NamedAtRaises(SysModulesGet(call.caller))

----------------------------------------------------------------------------
(* C11 *)

\* the 52 letters of the ASCII alphabet
Letters ==
    { "a", "b", "c", "d", "e", "f", "g", "h", "i", "j", "k", "l", "m", "n",
      "o", "p", "q", "r", "s", "t", "u", "v", "w", "x", "y", "z", "A", "B",
      "C", "D", "E", "F", "G", "H", "I", "J", "K", "L", "M", "N", "O", "P",
      "Q", "R", "S", "T", "U", "V", "W", "X", "Y", "Z" }

\* the last call was a direct call of random_exception
FactoryCall == call.via = "random_exception"

\* a name was passed to the last call, by position or by keyword
NamePassed == call.targets # <<>> \/ call.kwargs # <<>>

\* the name passed to the last call
NameGiven ==
    IF call.targets # <<>> THEN call.targets[1] ELSE call.kwargs[1][2]

\* the class the last call returned is a new one: its only base is
\* BaseException, it is not in the catalog, no earlier call returned it
NewSentinel ==
    LET exc == result.val[1] IN
    /\ result.raised = "" /\ Len(result.val) = 1
    /\ exc.kind = "type" /\ exc.base = "BaseException"
    /\ \A n \in std_exc_names : exc # StdType(n)
    /\ made[Len(made)] = exc
    /\ \A k \in 1..(Len(made) - 1) : made[k] # exc

\* the name of the class the last call returned is 15 letters, those drawn
RandomName ==
    /\ Len(result.val[1].name) = 15
    /\ Len(call.drawn) = 15
    /\ result.val[1].name = Join(call.drawn)
    /\ \A i \in 1..15 : call.drawn[i] \in Letters

\* C11 as stated: every call of random_exception returns a new class whose
\* only base is BaseException, which is not in the catalog and differs from
\* the class of every earlier call; without a name argument its name is 15
\* ASCII letters, with a name argument its name is the one given.
C11_NameIsTheOneGiven ==
    FactoryCall =>
       /\ NewSentinel
       /\ ~NamePassed => RandomName
       /\ NamePassed => result.val[1].name = NameGiven

\* C11 amended: every call of random_exception returns a new class whose
\* only base is BaseException, which is not in the catalog and differs from
\* the class of every earlier call; without a name argument, or with the
\* empty string as name, its name is 15 ASCII letters, and with a name
\* argument that is not empty its name is the one given.
C11_NewSentinelNamed ==
    FactoryCall =>
       /\ NewSentinel
       /\ (~NamePassed \/ NameGiven = "") => RandomName
       /\ (NamePassed /\ NameGiven # "") => result.val[1].name = NameGiven

\* the same name passed a second time, by keyword after by position, and the
\* third call made without a name
C11_Witness ==
    /\ FactoryCall /\ Len(made) = 3
    /\ made[1].name = "Foo" /\ made[2].name = "Foo"
    /\ ~NamePassed

----------------------------------------------------------------------------
(* C12 *)

\* C12: every class of standard_exceptions, the version-conditional ones
\* included when the interpreter defines them, is a member of std_excs and is
\* what std_excs_map gives for its name; the name of a conditional class the
\* interpreter lacks is looked up as absent.
C12_CatalogHoldsEveryStandardException ==
    call.via = "std_excs_map.get" =>
       LET name == call.targets[1] IN
       /\ result.raised = ""
       /\ name \in Range(standard_exceptions) =>
             /\ name \in Range(std_excs)
             /\ result.val[1].kind = "type" /\ result.val[1].name = name
       /\ (name \in Range(conditional_exceptions)
           /\ name \notin Range(standard_exceptions)) => result.val[1] = None

----------------------------------------------------------------------------
(* C13 *)

RECURSIVE CausalWalk(_)
\* the errors met from error i on, taking at each the raised-from link when
\* there is one and the raised-while-handling link otherwise
CausalWalk(i) ==
    <<i>> \o
    (IF errs[i].cause # 0 THEN CausalWalk(errs[i].cause)
     ELSE IF errs[i].context # 0 THEN CausalWalk(errs[i].context)
     ELSE <<>>)

RECURSIVE ContextualWalk(_)
\* the errors met from error i on, taking at each the raised-while-handling
\* link alone
ContextualWalk(i) ==
    <<i>> \o
    (IF errs[i].context # 0 THEN ContextualWalk(errs[i].context) ELSE <<>>)

\* the errors of the triples the last call of exc_infos returned, in order
WalkedErrors == [k \in 1..Len(result.val) |-> result.val[k].value]

\* exc_infos was called last, while an error was being handled
ChainCall == call.via = "exc_infos" /\ active # 0

\* C13 as stated: the chain walked from the error being handled follows at
\* each error the raised-from link when there is one and otherwise the
\* raised-while-handling link, and holds every error met, the first included;
\* an error raised from a predecessor has that predecessor in its chain.
C13_ChainFollowsCauseFirst ==
    ChainCall =>
       /\ WalkedErrors = CausalWalk(active)
       /\ errs[active].cause # 0 => errs[active].cause \in Range(WalkedErrors)

\* C13 amended: the chain walked from the error being handled follows at
\* each error the raised-while-handling link alone, whether or not there is
\* a raised-from link, and holds every error met, the first included; an
\* error raised from a predecessor has that predecessor in its chain exactly
\* when the predecessor is met along the raised-while-handling links.
C13_ChainFollowsContextOnly ==
    ChainCall =>
       /\ WalkedErrors = ContextualWalk(active)
       /\ errs[active].cause # 0 =>
             (errs[active].cause \in Range(WalkedErrors)
              <=> errs[active].cause \in Range(ContextualWalk(active)) \ {active})

\* the chain of an error raised, outside any handler, from a predecessor
C13_Witness ==
    /\ ChainCall
    /\ errs[active].cause # 0 /\ errs[active].context = 0
    /\ WalkedErrors = <<active>>

----------------------------------------------------------------------------
(* C14 *)

\* C14: exc_infos() returns the empty tuple when no error is being handled;
\* otherwise one (type, instance, traceback) triple for each error of the
\* context chain, each once: the first is the error being handled, each
\* later one is the context of the one before, its type and traceback being
\* those of its instance, and the last is the error without a context.
C14_OneTriplePerChainError ==
    call.via = "exc_infos" =>
       LET v == result.val IN
       /\ result.raised = ""
       /\ active = 0 => v = <<>>
       /\ active # 0 =>
             /\ Len(v) = Cardinality(ChainOf(active))
             /\ { v[k].value : k \in 1..Len(v) } = ChainOf(active)
             /\ v[1].value = active
             /\ \A k \in 2..Len(v) : v[k].value = errs[v[k - 1].value].context
             /\ \A k \in 1..Len(v) :
                   /\ v[k].type = errs[v[k].value].type
                   /\ v[k].tb = errs[v[k].value].tb
             /\ errs[v[Len(v)].value].context = 0

\* the triples of a chain of two errors whose tracebacks differ
C14_Witness ==
    /\ call.via = "exc_infos" /\ Len(result.val) = 2
    /\ result.val[1].tb # result.val[2].tb
    /\ result.val[1].type # result.val[2].type

----------------------------------------------------------------------------
(* C15 *)

\* the source the visitor was started on
Scraped == call.targets[1]

\* the walk of the source has ended, with or without an exception
WalkEnded == call.via = "visit" /\ pc \in {"done", "failed"}

\* the classes an except clause declares: BaseException when it is bare, the
\* class it names, each class of the tuple it names
Declared(handler) ==
    IF handler.type = NoNode THEN {BaseExceptionT}
    ELSE IF handler.type.k = "Name" THEN {std_excs_map(handler.type.id)} \ {None}
    ELSE IF handler.type.k = "Tuple"
    THEN { std_excs_map(handler.type.elts[i].id) :
             i \in { j \in 1..Len(handler.type.elts) :
                       handler.type.elts[j].k = "Name" } } \ {None}
    ELSE {}

RECURSIVE BareRaiseTypes(_, _)
\* the classes the bare raises under a node stand for, enclosing being the
\* classes declared by the innermost except clause around the node
BareRaiseTypes(node, enclosing) ==
    IF node.k = "Raise" THEN (IF node.exc = NoNode THEN enclosing ELSE {})
    ELSE IF node.k = "ExceptHandler"
    THEN UNION { BareRaiseTypes(node.body[i], Declared(node)) :
                   i \in 1..Len(node.body) }
    ELSE UNION { BareRaiseTypes(Children(node)[i], enclosing) :
                   i \in 1..Len(Children(node)) }

\* C15: a bare raise stands for the class or classes its innermost enclosing
\* except clause declares, also under nested and successive clauses: the
\* class named, each class of a tuple as an element of its own, BaseException
\* under a bare clause; the stack holds the classes of the clauses around the
\* raise being visited, pushed on entering a clause and popped on leaving
\* it, so it is empty once the walk is over.
C15_BareRaiseTakesInnermostHandler ==
    (WalkEnded /\ pc = "done") =>
       /\ BareRaiseTypes(Scraped, {}) \subseteq scraper.raised_exceptions
       /\ \A exc \in scraper.raised_exceptions : exc.kind = "type"
       /\ scraper.except_block_excs_stack = <<>>

----------------------------------------------------------------------------
(* C16 *)

RECURSIVE HasStrayRaise(_)
\* a bare raise stands under the node with no except clause around it; the
\* body of an except clause is not looked into
HasStrayRaise(node) ==
    IF node.k = "Raise" THEN node.exc = NoNode
    ELSE IF node.k = "ExceptHandler" THEN FALSE
    ELSE \E i \in 1..Len(Children(node)) : HasStrayRaise(Children(node)[i])

RECURSIVE NamedTypes(_)
\* the classes of the catalog named at the raise statements under a node
NamedTypes(node) ==
    IF node.k = "Raise"
    THEN IF node.exc.k = "Name" THEN {std_excs_map(node.exc.id)} \ {None}
         ELSE IF node.exc.k = "Call" /\ node.exc.func.k = "Name"
         THEN {std_excs_map(node.exc.func.id)} \ {None}
         ELSE {}
    ELSE UNION { NamedTypes(Children(node)[i]) : i \in 1..Len(Children(node)) }

\* C16: a bare raise that no except clause encloses makes the scrape fail,
\* wherever it stands, also after except clauses earlier in the source were
\* visited and left; it is not given the class of a clause that does not
\* enclose it and is not passed over.
C16_StrayBareRaiseFails ==
    (WalkEnded /\ HasStrayRaise(Scraped)) =>
       /\ pc = "failed" /\ fault # ""
       /\ scraper.raised_exceptions
             \subseteq NamedTypes(Scraped) \cup BareRaiseTypes(Scraped, {})

----------------------------------------------------------------------------
(* C17 *)

RECURSIVE Preorder(_)
\* the nodes under the nodes of a sequence, in source order
Preorder(nodes) ==
    IF nodes = <<>> THEN <<>>
    ELSE <<Head(nodes)>> \o Preorder(Children(Head(nodes))) \o Preorder(Tail(nodes))

\* the class an expression stands for under the bindings of aliases: a
\* name or a call of a name, bound or of the catalog
Denoted(expr, aliases) ==
    LET id == IF expr.k = "Name" THEN expr.id
              ELSE IF expr.k = "Call" /\ expr.func.k = "Name" THEN expr.func.id
              ELSE NoneId
    IN IF \E k \in 1..Len(aliases) : aliases[k][1] = id
       THEN aliases[CHOOSE k \in 1..Len(aliases) :
                       /\ aliases[k][1] = id
                       /\ \A j \in 1..Len(aliases) : aliases[j][1] = id => j <= k][2]
       ELSE IF id = NoneId THEN None ELSE std_excs_map(id)

RECURSIVE AliasedRaises(_, _, _)
\* the classes raised through a bound name by the nodes of a sequence from
\* node i on, aliases being the (name, class) bindings made before it
AliasedRaises(nodes, i, aliases) ==
    IF i > Len(nodes) THEN {}
    ELSE LET node == nodes[i] IN
         IF /\ node.k = "Assign"
            /\ Denoted(node.value, aliases) # None
            /\ \A t \in 1..Len(node.targets) : node.targets[t].k = "Name"
         THEN AliasedRaises(nodes, i + 1,
                 aliases \o [t \in 1..Len(node.targets) |->
                               <<node.targets[t].id, Denoted(node.value, aliases)>>])
         ELSE IF /\ node.k = "Raise" /\ node.exc.k = "Name"
                 /\ \E k \in 1..Len(aliases) : aliases[k][1] = node.exc.id
         THEN {Denoted(node.exc, aliases)} \cup AliasedRaises(nodes, i + 1, aliases)
         ELSE AliasedRaises(nodes, i + 1, aliases)

\* C17: a raise naming an identifier that an earlier assignment, at any
\* scope, bound to a class, to a call of a class or to another such name
\* stands for the class last bound, through chains of names: the bindings
\* made by the assignments are looked up at every such raise. (Stated of
\* the sources in which every bare raise has an except clause around it.)
C17_RaiseResolvesThroughAliases ==
    (WalkEnded /\ ~HasStrayRaise(Scraped)) =>
       AliasedRaises(Preorder(<<Scraped>>), 1, <<>>)
          \subseteq scraper.raised_exceptions

----------------------------------------------------------------------------
(* C18 *)

RECURSIVE DirectNames(_)
\* the names that the raise statements under a node, outside the except
\* clauses, give directly or by a call
DirectNames(node) ==
    IF node.k = "Raise"
    THEN IF node.exc.k = "Name" THEN {node.exc.id}
         ELSE IF node.exc.k = "Call" /\ node.exc.func.k = "Name"
         THEN {node.exc.func.id}
         ELSE {}
    ELSE IF node.k = "ExceptHandler" THEN {}
    ELSE UNION { DirectNames(Children(node)[i]) : i \in 1..Len(Children(node)) }

\* C18: a name at a raise statement is looked up in the scraped module's own
\* namespace first and in the catalog only when the module does not have it:
\* for a name that both define, the module's class is the one reported.
C18_ModuleNamespaceComesFirst ==
    (WalkEnded /\ pc = "done") =>
       \A id \in DirectNames(Scraped) :
          LET own == ModuleAttr(scraper.module, id) IN
          (own # None /\ IsExcClass(own) /\ id \in std_exc_names) =>
             /\ own \in scraper.raised_exceptions
             /\ StdType(id) \notin scraper.raised_exceptions

----------------------------------------------------------------------------
(* C19 *)

\* the loaded modules whose file is the given one, in the registry's order
ModulesOfFile(file) ==
    LET Hit(i) == sys_modules[i].file # "" /\ sys_modules[i].file = file
        F[i \in 0..Len(sys_modules)] ==
            IF i = 0 THEN <<>>
            ELSE IF Hit(i) THEN Append(F[i - 1], sys_modules[i]) ELSE F[i - 1]
    IN F[Len(sys_modules)]

RECURSIVE ModulesOfFrames(_)
\* for each frame in turn, the loaded modules whose file is the frame's
ModulesOfFrames(tb) ==
    IF tb = <<>> THEN <<>>
    ELSE ModulesOfFile(Head(tb)) \o ModulesOfFrames(Tail(tb))

\* C19: get_traceback_modules(tb) returns, in frame order (most recent call
\* last), for each frame every loaded module whose file is the frame's, all
\* of them when several loaded modules share the file and none when no
\* loaded module has it; the registry is left as it was.
C19_EveryModuleOfEveryFrame ==
    call.via = "get_traceback_modules" =>
       /\ result.raised = ""
       /\ result.val = ModulesOfFrames(call.tb)
       /\ sys_modules = LoadedModules

----------------------------------------------------------------------------
(* C20 *)

\* obj is a tuple of three: an error class, an instance of it, a traceback
IsActiveTriple(obj) ==
    /\ obj.kind = "tuple" /\ Len(obj.elts) = 3
    /\ obj.elts[1].kind = "type" /\ IsSubclass(obj.elts[1], BaseExceptionT)
    /\ obj.elts[2].kind = "instance" /\ IsSubclass(obj.elts[2].type, obj.elts[1])
    /\ obj.elts[3].kind = "traceback"

\* C20: is_hot_exc_info(x) returns True exactly when x is a tuple of three
\* (T, e, tb), T an error class, e an instance of T and tb a traceback, as
\* sys.exc_info() gives while an error is handled; for any other object,
\* (None, None, None) and a triple that starts with an error instance
\* included, it returns False and does not raise.
C20_HotExactlyForActiveTriples ==
    call.via = "is_hot_exc_info" =>
       /\ result.raised = ""
       /\ result.val = <<IF IsActiveTriple(call.obj) THEN PyTrue ELSE PyFalse>>

----------------------------------------------------------------------------
(* C21 *)

\* a construction from these arguments, made now, returns a tuple by which
\* an except clause catches the error being handled
Fires(targets, kwargs) ==
    \A sampled \in SampledNames :
       \A outcome \in ExceptionFrom(targets, kwargs, sampled) :
          outcome.raised = "" /\ Matches(active, outcome.val)

\* the ExceptionFrom clause evaluated last caught the error being handled
FromClauseFired == LastIsFrom /\ LastFired /\ call.via = "clause"

\* the types of the errors of the context chain of error i, i's first
ChainTypes(i) ==
    [k \in 1..Len(ContextualWalk(i)) |-> errs[ContextualWalk(i)[k]].type]

\* C21: while the same chain of errors is handled and for the same one or
\* more target modules, a construction that fires with root_only=True also
\* fires with root_only=False, and a construction that fires still fires
\* when further modules are added to its targets; the tuple of a firing
\* construction lists the type of each error of the context chain, that of
\* the error being handled first.
C21_FiringIsMonotone ==
    FromClauseFired =>
       LET c == clauses[Len(clauses)] IN
       /\ ModulesOnly(c.targets)
       /\ RootOnly(c.kwargs) => Fires(c.targets, << <<"root_only", FALSE>> >>)
       /\ \A more \in { t \in TargetLists : ModulesOnly(t) } :
             /\ Fires(c.targets \o more, c.kwargs)
             /\ Fires(more \o c.targets, c.kwargs)
       /\ result.val = ChainTypes(active)

\* a clause that named one module and root_only fired while a chain of two
\* errors of different types was handled, the module being resolved from the
\* frames of the earliest error and not from those of the error handled
C21_Witness ==
    /\ FromClauseFired
    /\ RootOnly(call.kwargs) /\ Len(call.targets) = 1
    /\ errs[active].context # 0
    /\ call.targets[1] \notin ResolvedFrom(active)
    /\ Len(result.val) = 2 /\ result.val[1] # result.val[2]

====
